---- MODULE Spec2Model ----
(***************************************************************************)
(* A model of nftables-exporter.py: the polling loop collect_metrics, the  *)
(* snapshot fetcher fetch_nftables, the country enricher                   *)
(* annotate_elements_with_country and the label-indexed metric objects     *)
(* DictGauge / DictCounter.                                                *)
(*                                                                         *)
(* JSON objects of the nft command are records; a key is present when it   *)
(* is in the record's DOMAIN.  A Python exception is the field exc of an   *)
(* operator's result ("" when none was raised).                            *)
(***************************************************************************)
EXTENDS Integers, Sequences, FiniteSets, TLC

VARIABLES
    pc,           \* position of the process: a statement of collect_metrics, or "stopped"
    metrics,      \* the seven metric objects built by build_prometheus_metrics
    geoip_db,     \* whether a lookup source was handed to collect_metrics
    data,         \* fetch_nftables: the parsed primary response being iterated
    idx,          \* fetch_nftables: position of the detail loop in data
    nft_rules,    \* collect_metrics: the rules fetched in this cycle (line 146)
    nft_counters, \* collect_metrics: the counters fetched in this cycle (line 163)
    queries,      \* commands run in the current cycle, in order
    warnings,     \* log.warning calls of the current cycle
    version,      \* fetch_nftables: json_schema_version of the last primary response
    returncode,   \* exit status of the last nft command that ended
    interrupted,  \* whether a KeyboardInterrupt was delivered
    processed,    \* families whose metric writes are complete in the current cycle
    retval,       \* what collect_metrics returned ("none" while it has not returned)
    raised,       \* the exception that left collect_metrics uncaught ("" when none)
    exitStatus,   \* exit status of the process (-1 while it runs)
    elapsed,      \* time.time() - start as read at the end of collection
    slept,        \* duration of the time.sleep just behind (-1 when none is)
    volatile,     \* the family whose listing changes freely on this host
    mode,         \* "live", or "free" / "record" / "replay" on a host that repeats a listing
    snap,         \* responses of the recorded cycle, in query order
    written,      \* label sets written into each element metric in the current cycle
    prevWritten,  \* the same for the previous completed cycle
    prevEnd,      \* metrics at the end of the previous completed cycle
    eItem,        \* enricher harness: the object passed to the enricher
    eGeo,         \* enricher harness: whether a lookup source is passed
    eOut,         \* enricher harness: what the generator produced
    ePc,          \* enricher harness: "call" before the call, "done" after
    scraped,      \* what the last scrape of the current cycle was served (NoScrape when none was)
    alive,        \* whether the interpreter, and with it the server thread, still runs
    retries,      \* retry harness: n, the number of retries the decorator was given
    exceptions,   \* retry harness: the exception types the decorator was given
    outcomes,     \* retry harness: what the wrapped function does, call by call
    calls,        \* retry harness: calls of the wrapped function so far
    wrapperPc,    \* retry harness: "loop", "final", "returned", "raised" ("idle" outside)
    wrapperResult, \* retry harness: what left the wrapper, and the call it came from
    fetchIn,      \* fetcher harness: the scope asked for and what nft answers
    fetchOut,     \* fetcher harness: what fetch_nftables returned or raised, and the commands it ran
    fetchPc       \* fetcher harness: "call" before the call, "done" after ("idle" outside)

loopVars == <<pc, metrics, geoip_db, data, idx, nft_rules, nft_counters, queries, warnings, version, returncode,
              interrupted, processed, retval, raised, exitStatus, elapsed, slept,
              volatile, mode, snap, written, prevWritten, prevEnd>>
serverVars == <<scraped, alive>>
enrichVars == <<eItem, eGeo, eOut, ePc>>
retryVars == <<retries, exceptions, outcomes, calls, wrapperPc, wrapperResult>>
fetchVars == <<fetchIn, fetchOut, fetchPc>>
vars == <<loopVars, serverVars, enrichVars, retryVars, fetchVars>>

(***************************************************************************)
(* Bounds of the model.                                                    *)
(***************************************************************************)
MaxItems == 2        \* entries of one response after the metainfo envelope
MaxElems == 2        \* elements of an element collection in the polling loop
MaxEnrichElems == 3  \* elements of an element collection handed to the enricher alone
MaxVal == 2          \* largest packet count a counter reports
MaxElapsed == 3      \* longest collection time, in seconds
MaxRetries == 3      \* largest retry count n given to the retry decorator
UpdateInterval == 2  \* the configured update interval (args.update), in seconds

(***************************************************************************)
(* Sequence helpers.                                                       *)
(***************************************************************************)
SeqsUpTo(S, n) == UNION {[1..k -> S] : k \in 0..n}

\* the sequences of at most n entries of S that list no entry twice
ListingsOf(S, n) ==
    {s \in SeqsUpTo(S, n) : \A i, j \in 1..Len(s) : i # j => s[i] # s[j]}

RECURSIVE SumCounts(_)
SumCounts(pairs) ==
    IF pairs = <<>> THEN 0 ELSE pairs[1][2] + SumCounts(Tail(pairs))

RECURSIVE CountIf(_, _)
CountIf(s, kinds) ==
    IF s = <<>> THEN 0
    ELSE (IF s[1].kind \in kinds THEN 1 ELSE 0) + CountIf(Tail(s), kinds)

(***************************************************************************)
(* The geo lookup source: maxminddb's Reader.get answers a record for a    *)
(* known address and None otherwise.                                       *)
(***************************************************************************)
None == [none |-> TRUE]

Addresses == {"1.1.1.1", "8.8.8.8", "2.2.2.2", "10.0.0.1"}

GeoDb ==
    [address \in Addresses |->
        CASE address = "1.1.1.1" -> [country |-> [iso_code |-> "AU"]]
          [] address = "8.8.8.8" -> [country |-> [iso_code |-> "US"]]
          [] address = "2.2.2.2" -> [continent |-> [code |-> "EU"]]
          [] OTHER -> None]

\* a variant of lookup_ip_country that resolves no address
LookupUnresolved(address, database) == ""

\* lookup_ip_country: the iso code, '' when any key access raises
lookup_ip_country(address, database) ==
    LET info == database[address]
    IN  IF "country" \in DOMAIN info /\ "iso_code" \in DOMAIN info["country"]
        THEN info["country"]["iso_code"]
        ELSE ""

(***************************************************************************)
(* Elements of an element collection.  kind is the Python class of the     *)
(* decoded JSON value: "str", "dict" or "list".                            *)
(***************************************************************************)
StrElem(a) == [kind |-> "str", val |-> a]
KvElem(a) == [kind |-> "dict", body |-> [elem |-> [val |-> a]]]
PrefixElem(a) == [kind |-> "dict", body |-> [prefix |-> [addr |-> a]]]
ListElem(a) == [kind |-> "list", body |-> <<a, "accept">>]

AddressTypes == {"ipv4_addr", "ipv6_addr"}

\* dict(item, country=country)
WithCountry(item, country) ==
    [k \in DOMAIN item \cup {"country"} |->
        IF k = "country" THEN country ELSE item[k]]

\* a variant of Bump that assigns 1 in place of adding 1
BumpOverwrite(result, country) ==
    IF \E i \in 1..Len(result) : result[i][1] = country
    THEN result
    ELSE Append(result, <<country, 1>>)

\* result[country] += 1 on a defaultdict(int) kept in insertion order
Bump(result, country) ==
    IF \E i \in 1..Len(result) : result[i][1] = country
    THEN [i \in 1..Len(result) |->
            IF result[i][1] = country
            THEN <<country, result[i][2] + 1>> ELSE result[i]]
    ELSE Append(result, <<country, 1>>)

\* the for loop over elements of annotate_elements_with_country
RECURSIVE CountCountries(_, _)
CountCountries(elements, result) ==
    IF elements = <<>> THEN [result |-> result, exc |-> ""]
    ELSE LET element == elements[1]
         IN  IF element.kind = "str"
             THEN CountCountries(Tail(elements),
                     Bump(result, lookup_ip_country(element.val, GeoDb)))
             ELSE IF element.kind = "dict"
             THEN IF "elem" \in DOMAIN element.body /\ "val" \in DOMAIN element.body["elem"]
                  THEN CountCountries(Tail(elements),
                          Bump(result, lookup_ip_country(element.body["elem"]["val"], GeoDb)))
                  ELSE [result |-> result, exc |-> "KeyError"]
             ELSE CountCountries(Tail(elements), result)

\* item.get('elem', ()) and item.get('type')
ElementsOf(item) == IF "elem" \in DOMAIN item THEN item["elem"] ELSE <<>>
TypeField(item) == IF "type" \in DOMAIN item THEN item["type"] ELSE "None"

\* lines 234-245: one pair per country counted, nothing when the loop raised
CountryPairs(item) ==
    LET r == CountCountries(ElementsOf(item), <<>>)
    IN  IF r.exc # "" THEN [pairs |-> <<>>, exc |-> r.exc]
        ELSE [pairs |-> [i \in 1..Len(r.result) |->
                           <<WithCountry(item, r.result[i][1]), r.result[i][2]>>],
              exc |-> ""]

\* line 247: the single pair of the pass-through path
PassThrough(item) ==
    [pairs |-> <<<<WithCountry(item, ""), Len(ElementsOf(item))>>>>, exc |-> ""]

\* a variant of the enricher that does not look at the declared type
AnnotateAnyType(item, geoip) ==
    IF geoip THEN CountryPairs(item) ELSE PassThrough(item)

\* annotate_elements_with_country: the pairs (labels, value) the generator
\* yields, in order, and the exception that ended it
annotate_elements_with_country(item, geoip) ==
    IF geoip /\ TypeField(item) \in AddressTypes
    THEN CountryPairs(item)
    ELSE PassThrough(item)

(***************************************************************************)
(* Enricher harness: the generator applied to one object.                  *)
(***************************************************************************)
AllElems == {StrElem(a) : a \in Addresses} \cup {KvElem("1.1.1.1"), KvElem("10.0.0.1"),
             PrefixElem("10.0.0.0"), ListElem("1.1.1.1")}
ElemTypes == {"ipv4_addr", "ipv6_addr", "inet_service"}
BareObject(n, t) == [family |-> "ip", table |-> "filter", name |-> n, type |-> t]
EnrichItems ==
    {BareObject("s", t) : t \in ElemTypes}
    \cup {BareObject("s", t) @@ ("elem" :> e) : t \in ElemTypes, e \in SeqsUpTo(AllElems, MaxEnrichElems)}
    \cup {[family |-> "ip", table |-> "filter", name |-> "s"]}

NoOutput == [pairs |-> <<>>, exc |-> "pending"]


(***************************************************************************)
(* The metric objects: a label-less gauge is its value; a labelled metric  *)
(* is a function from the label sets it tracks to their values.            *)
(***************************************************************************)
NoSeries == [l \in {} |-> 0]

ElementMetrics == {"map_elements", "meter_elements", "set_elements"}
CounterLabelNames == {"family", "table", "name"}
ElementLabelNames == {"family", "table", "name", "type", "country"}

\* build_prometheus_metrics
build_prometheus_metrics ==
    [chains |-> 0, rules |-> 0,
     counter_bytes |-> NoSeries, counter_packets |-> NoSeries,
     map_elements |-> NoSeries, meter_elements |-> NoSeries, set_elements |-> NoSeries]

\* _filter_labels
filter_labels(d, labelnames) == [key \in DOMAIN d \cap labelnames |-> d[key]]

\* DictGauge.labels: the child for the filtered labels; prometheus_client raises
\* ValueError unless exactly the declared label names are given
DictGauge_labels(d, labelnames) ==
    LET filtered == filter_labels(d, labelnames)
    IN  [key |-> filtered,
         exc |-> IF DOMAIN filtered = labelnames THEN "" ELSE "ValueError"]

\* DictCounter.labels: as above, the comment standing in for a missing name
DictCounter_labels(d, labelnames) ==
    LET filtered == filter_labels(d, labelnames)
        named == IF "name" \in DOMAIN filtered THEN filtered
                 ELSE IF "comment" \in DOMAIN d
                      THEN filtered @@ ("name" :> d["comment"])
                      ELSE filtered
    IN  [key |-> named,
         exc |-> IF "name" \notin DOMAIN named THEN "KeyError"
                 ELSE IF DOMAIN named = labelnames THEN "" ELSE "ValueError"]

\* labels(...) creates the child at 0 when it is new
ValueOf(metric, key) == IF key \in DOMAIN metric THEN metric[key] ELSE 0

\* Gauge.set on a child
Gauge_set(metric, key, value) ==
    [l \in DOMAIN metric \cup {key} |-> IF l = key THEN value ELSE metric[l]]

\* a variant of DictCounter.set that clears the other children of the metric
CounterSetAfterReset(metric, key, value) ==
    [l \in DOMAIN metric \cup {key} |-> IF l = key THEN value ELSE 0]

\* a variant of DictCounter.set that adds to the child as Counter.inc does
CounterAccumulate(metric, key, value) ==
    [l \in DOMAIN metric \cup {key} |->
        IF l = key THEN ValueOf(metric, key) + value ELSE metric[l]]

\* DictCounter.set on a child: self._value.set(data)
DictCounter_set(metric, key, value) ==
    [l \in DOMAIN metric \cup {key} |-> IF l = key THEN value ELSE metric[l]]

\* a variant of _reset_labels that removes the samples
ResetRemoves(metric) == NoSeries

\* a variant of _reset_labels that leaves the samples alone
ResetNothing(metric) == metric

\* _reset_labels: every sample of the metric is set to 0
reset_labels(metric) == [l \in DOMAIN metric |-> 0]

(***************************************************************************)
(* What the nft command answers.  An entry of a response is a record with  *)
(* one key, its type tag.                                                  *)
(***************************************************************************)
DetailScopes == {"sets", "meters", "maps"}

Readings == {[packets |-> p, bytes |-> p + MaxVal] : p \in 1..MaxVal}
FirstReading == [packets |-> 1, bytes |-> 1 + MaxVal]
LastReading == [packets |-> MaxVal, bytes |-> MaxVal + MaxVal]

MatchExpr == [match |-> "tcp"]
CounterExpr(r) == [counter |-> r]

Rule(expr) == [rule |-> [family |-> "ip", table |-> "filter", expr |-> expr]]
CommentedRule(expr) ==
    [rule |-> [family |-> "ip", table |-> "filter", expr |-> expr, comment |-> "ssh-in"]]
\* a second commented rule of the same table, under a comment of its own
OtherCommentedRule ==
    [rule |-> [family |-> "ip", table |-> "filter",
               expr |-> <<MatchExpr, CounterExpr(LastReading)>>, comment |-> "dns-in"]]
Chain(n) == [chain |-> [family |-> "ip", table |-> "filter", name |-> n]]
TableItem == [table |-> [family |-> "ip", name |-> "filter"]]
CounterItem(r) ==
    [counter |-> [family |-> "ip", table |-> "filter", name |-> "cnt",
                  packets |-> r.packets, bytes |-> r.bytes]]
\* a declared counter whose name is the comment text of a rule of its table
CounterNamedAsRule ==
    [counter |-> [family |-> "ip", table |-> "filter", name |-> "ssh-in",
                  packets |-> LastReading.packets, bytes |-> LastReading.bytes]]
ObjectItem(type_name, n, t) == (type_name :> BareObject(n, t))

CommentedExprs ==
    {<<>>, <<MatchExpr>>, <<MatchExpr, MatchExpr>>,
     <<MatchExpr, MatchExpr, CounterExpr(FirstReading)>>}
    \cup {<<MatchExpr, CounterExpr(r)>> : r \in Readings}

Families == {"rules", "chains", "counters", "maps", "meters", "sets"}

QueryOf(family) == IF family \in {"rules", "chains"} THEN "ruleset" ELSE family
TypeOf(family) ==
    CASE family = "rules" -> "rule"
      [] family = "chains" -> "chain"
      [] family = "counters" -> "counter"
      [] family = "maps" -> "map"
      [] family = "meters" -> "meter"
      [] family = "sets" -> "set"

\* the entries a listing fetched for a family is made of
Items(family) ==
    CASE family = "rules" ->
            {Chain("input"), Rule(<<MatchExpr>>), OtherCommentedRule}
            \cup {CommentedRule(e) : e \in CommentedExprs}
      [] family = "chains" -> {Chain("input"), Chain("output"), Rule(<<MatchExpr>>)}
      [] family = "counters" ->
            {TableItem, CounterNamedAsRule} \cup {CounterItem(r) : r \in Readings}
      [] OTHER -> {TableItem, ObjectItem(TypeOf(family), "s", "ipv4_addr"),
                   ObjectItem(TypeOf(family), "p", "inet_service")}

\* the listing fetched for a family that does not change on this host
Baseline(family) ==
    CASE family \in {"rules", "chains"} ->
            <<Chain("input"), CommentedRule(<<MatchExpr, CounterExpr(FirstReading)>>)>>
      [] family = "counters" -> <<CounterItem(FirstReading)>>
      [] OTHER -> <<ObjectItem(TypeOf(family), "p", "inet_service")>>

\* the host that repeats its responses has one commented rule and no declared
\* counter named as a rule
Listings(family) ==
    IF family # volatile THEN {Baseline(family)}
    ELSE IF mode = "live" THEN ListingsOf(Items(family), MaxItems)
    ELSE ListingsOf(Items(family) \ {OtherCommentedRule, CounterNamedAsRule}, MaxItems)

Responses(family) ==
    {[version |-> 1, items |-> s] : s \in Listings(family)}
    \cup {[version |-> 2, items |-> Baseline(family)]}

LoopElems == {StrElem("1.1.1.1"), StrElem("10.0.0.1"), ListElem("1.1.1.1")}

\* the object a per-object query answers: with or without an element collection
DetailResponses(family, obj) ==
    IF family # volatile THEN {obj}
    ELSE IF obj["type"] \in AddressTypes
    THEN {obj} \cup {obj @@ ("elem" :> e) : e \in SeqsUpTo(LoopElems, MaxElems)}
    ELSE {obj, obj @@ ("elem" :> <<StrElem("10.0.0.1")>>)}

PrimaryCmd(query_name) == <<"nft", "--json", "list", query_name>>
DetailCmd(type_name, obj) ==
    <<"nft", "--json", "list", type_name, obj["family"], obj["table"], obj["name"]>>

(***************************************************************************)
(* fetch_nftables.                                                         *)
(***************************************************************************)
SupportedVersion == 1

\* a variant of the version check that accepts every version
NoVersionError(response) == ""

\* the version check on the primary response
VersionError(response) ==
    IF response.version # SupportedVersion THEN "RuntimeError" ELSE ""

RECURSIVE Tagged(_, _)
\* [item[type_name] for item in data['nftables'][1:] if type_name in item]
Tagged(items, type_name) ==
    IF items = <<>> THEN <<>>
    ELSE IF type_name \in DOMAIN items[1]
         THEN <<items[1][type_name]>> \o Tagged(Tail(items), type_name)
         ELSE Tagged(Tail(items), type_name)

\* fetch_nftables for a scope without per-object queries
fetch_nftables(response, type_name) ==
    [result |-> IF VersionError(response) = "" THEN Tagged(response.items, type_name)
                ELSE <<>>,
     exc |-> VersionError(response)]

\* item[type_name]['name'] at the head of the detail loop's iteration i
DetailKeyError(items, i, type_name) ==
    IF i <= Len(items) /\ type_name \notin DOMAIN items[i] THEN "KeyError" ELSE ""

\* a variant of MergeElem that drops the detail response
MergeNothing(item, type_name, detail) == item

\* item[type_name]['elem'] = item_data[...]['elem'] when the detail response has one
MergeElem(item, type_name, detail) ==
    IF "elem" \in DOMAIN detail
    THEN (type_name :> (("elem" :> detail["elem"]) @@ item[type_name]))
    ELSE item

\* what the per-object query of the detail loop's iteration answers: the object,
\* with an element collection when it has elements
DetailOf(obj, has_elements) ==
    IF has_elements THEN obj @@ ("elem" :> <<StrElem("1.1.1.1")>>) ELSE obj

RECURSIVE DetailLoop(_, _, _, _)
\* lines 211-223 from iteration i on: the entries after the merges, the commands
\* run, and the exception that ended the loop
DetailLoop(items, i, type_name, details) ==
    IF i > Len(items) THEN [items |-> items, cmds |-> <<>>, exc |-> ""]
    ELSE IF DetailKeyError(items, i, type_name) # ""
    THEN [items |-> items, cmds |-> <<>>, exc |-> DetailKeyError(items, i, type_name)]
    ELSE LET obj == items[i][type_name]
             merged == [items EXCEPT ![i] = MergeElem(@, type_name, DetailOf(obj, details[i]))]
             rest == DetailLoop(merged, i + 1, type_name, details)
         IN  [rest EXCEPT !.cmds = <<DetailCmd(type_name, obj)>> \o @]

\* fetch_nftables as a whole: what it returns or raises and the commands it runs,
\* given the primary response and whether each per-object response has elements
fetch_nftables_detailed(query_name, type_name, response, details) ==
    IF VersionError(response) # ""
    THEN [result |-> <<>>, cmds |-> <<PrimaryCmd(query_name)>>, exc |-> VersionError(response)]
    ELSE IF query_name \in DetailScopes /\ Len(response.items) > 0
    THEN LET d == DetailLoop(response.items, 1, type_name, details)
         IN  [result |-> IF d.exc = "" THEN Tagged(d.items, type_name) ELSE <<>>,
              cmds |-> <<PrimaryCmd(query_name)>> \o d.cmds,
              exc |-> d.exc]
    ELSE [result |-> fetch_nftables(response, type_name).result,
          cmds |-> <<PrimaryCmd(query_name)>>,
          exc |-> ""]

NoFetch == [result |-> <<>>, cmds |-> <<>>, exc |-> "pending"]

(***************************************************************************)
(* collect_metrics: the work on one family's fetched objects.              *)
(***************************************************************************)
RECURSIVE Commented(_)
\* [item for item in nft_rules if 'comment' in item.keys()]
Commented(fetched) ==
    IF fetched = <<>> THEN <<>>
    ELSE IF "comment" \in DOMAIN fetched[1]
         THEN <<fetched[1]>> \o Commented(Tail(fetched))
         ELSE Commented(Tail(fetched))

\* a variant of SetCounters that writes each count into the other metric
SetCountersSwapped(mt, item, reading) ==
    LET lab == DictCounter_labels(item, CounterLabelNames)
    IN  IF lab.exc # "" THEN [metrics |-> mt, exc |-> lab.exc]
        ELSE [metrics |->
                [mt EXCEPT !.counter_bytes = DictCounter_set(@, lab.key, reading.packets),
                           !.counter_packets = DictCounter_set(@, lab.key, reading.bytes)],
              exc |-> ""]

\* counter_bytes.labels(item).set(b); counter_packets.labels(item).set(p)
SetCounters(mt, item, reading) ==
    LET lab == DictCounter_labels(item, CounterLabelNames)
    IN  IF lab.exc # "" THEN [metrics |-> mt, exc |-> lab.exc]
        ELSE [metrics |->
                [mt EXCEPT !.counter_bytes = DictCounter_set(@, lab.key, reading.bytes),
                           !.counter_packets = DictCounter_set(@, lab.key, reading.packets)],
              exc |-> ""]

\* whether item['expr'][1] exists, and whether it is a counter expression
HasSecondExpr(item) == Len(item["expr"]) >= 2
SecondIsCounter(item) == "counter" \in DOMAIN item["expr"][2]

RECURSIVE CorrelateRules(_, _)
\* the loop over commented_rules
CorrelateRules(items, acc) ==
    IF items = <<>> \/ acc.exc # "" THEN acc
    ELSE LET item == items[1]
         IN  IF ~HasSecondExpr(item)
             THEN [acc EXCEPT !.exc = "IndexError"]
             ELSE IF ~SecondIsCounter(item)
             THEN CorrelateRules(Tail(items), [acc EXCEPT !.warnings = @ + 1])
             ELSE LET w == SetCounters(acc.metrics, item, item["expr"][2]["counter"])
                  IN  CorrelateRules(Tail(items),
                         [acc EXCEPT !.metrics = w.metrics, !.exc = w.exc])

\* rules.set(len(nft_rules)) and the correlation of commented rules
ProcessRules(mt, fetched) ==
    CorrelateRules(Commented(fetched),
                   [metrics |-> [mt EXCEPT !.rules = Len(fetched)],
                    warnings |-> 0, exc |-> ""])

RECURSIVE ProcessCounters(_, _)
\* the loop over the declared counters
ProcessCounters(items, acc) ==
    IF items = <<>> \/ acc.exc # "" THEN acc
    ELSE LET w == SetCounters(acc.metrics, items[1], items[1])
         IN  ProcessCounters(Tail(items), [acc EXCEPT !.metrics = w.metrics, !.exc = w.exc])

RECURSIVE WritePairs(_, _)
\* for labels, value in annotate_elements_with_country(...): m.labels(labels).set(value)
WritePairs(pairs, acc) ==
    IF pairs = <<>> \/ acc.exc # "" THEN acc
    ELSE LET lab == DictGauge_labels(pairs[1][1], ElementLabelNames)
         IN  IF lab.exc # "" THEN [acc EXCEPT !.exc = lab.exc]
             ELSE WritePairs(Tail(pairs),
                     [acc EXCEPT !.metric = Gauge_set(@, lab.key, pairs[1][2]),
                                 !.written = @ \cup {lab.key}])

RECURSIVE ProcessElements(_, _, _)
\* the loop over the fetched maps, meters or sets
ProcessElements(items, geoip, acc) ==
    IF items = <<>> \/ acc.exc # "" THEN acc
    ELSE LET a == annotate_elements_with_country(items[1], geoip)
             w == WritePairs(a.pairs, acc)
         IN  ProcessElements(Tail(items), geoip,
                IF w.exc = "" THEN [w EXCEPT !.exc = a.exc] ELSE w)


(***************************************************************************)
(* Positions of collect_metrics.  A family is entered at its reset (the    *)
(* element families) or at its fetch; "fetch" and "detail" are the waits   *)
(* on the nft subprocess, "sleep" the wait in time.sleep.                  *)
(***************************************************************************)
At(step, family) == [step |-> step, family |-> family]
Stopped == At("stopped", "")

Order == <<"rules", "chains", "counters", "maps", "meters", "sets">>

MetricOf(family) ==
    CASE family = "maps" -> "map_elements"
      [] family = "meters" -> "meter_elements"
      [] family = "sets" -> "set_elements"

Enter(family) ==
    IF family \in DetailScopes THEN At("reset", family) ELSE At("fetch", family)

\* a variant of After that works on meters before maps
AfterSwapped(family) ==
    CASE family = "counters" -> Enter("meters")
      [] family = "meters" -> Enter("maps")
      [] family = "maps" -> Enter("sets")
      [] family = "sets" -> At("collected", "")
      [] family = "rules" -> Enter("chains")
      [] family = "chains" -> Enter("counters")

\* the statement that follows the work on a family
After(family) ==
    LET i == CHOOSE k \in 1..Len(Order) : Order[k] = family
    IN  IF i = Len(Order) THEN At("collected", "") ELSE Enter(Order[i + 1])

\* the except clauses of collect_metrics: its return value
OnCalledProcessError == "False"

\* a variant of the KeyboardInterrupt clause that reports failure
InterruptReportsFailure == "False"

OnKeyboardInterrupt == "True"

\* a variant of __main__ that never calls sys.exit(1)
ExitAlwaysZero(cleanExit) == 0

\* __main__: sys.exit(1) unless main() returned a true value
ExitStatus(cleanExit) == IF cleanExit = "True" THEN 0 ELSE 1

\* a variant of the sleep that subtracts the time spent collecting
SleepRemaining(update_interval, spent) ==
    IF spent >= update_interval THEN 0 ELSE update_interval - spent

\* time.sleep(update_interval)
SleepDuration(update_interval, spent) == update_interval

NoneWritten == [m \in ElementMetrics |-> {}]

\* no scrape was served yet
NoScrape == [served |-> FALSE]

\* the wrapper of the retry harness has not ended
NoResult == [kind |-> "pending", call |-> 0]

\* what a call of the wrapped function does: it returns, or raises one of these
CallOutcomes == {"return", "URLError", "RuntimeError"}

\* def retry(n=2, ...): the retry count of both decorated functions
DefaultRetries == 2

\* for _ in range(n): the number of passes of the loop
Attempts(count) == count

\* a variant of the except clause that catches every exception
SwallowsAll(outcome, caught) == TRUE

\* except exceptions as e: whether the clause of line 266 catches the exception
Swallowed(outcome, caught) == outcome \in caught

(***************************************************************************)
(* The environment: which response a query gets.                           *)
(***************************************************************************)
Allowed(response) ==
    mode = "replay" => /\ Len(queries) < Len(snap)
                       /\ response = snap[Len(queries) + 1]

Issue(cmd, response) ==
    /\ Allowed(response)
    /\ queries' = Append(queries, cmd)
    /\ snap' = IF mode = "record" THEN Append(snap, response) ELSE snap
    /\ returncode' = 0

\* an exception nothing in the program catches ends the process with status 1
Outcome(exc, next) ==
    /\ pc' = IF exc = "" THEN next ELSE Stopped
    /\ raised' = exc
    /\ exitStatus' = IF exc = "" THEN exitStatus ELSE 1
    /\ UNCHANGED <<retval, interrupted>>

Completed(exc, family) ==
    processed' = IF exc = "" THEN Append(processed, family) ELSE processed

(***************************************************************************)
(* The actions of the polling loop.                                        *)
(***************************************************************************)
\* lines 144-158
FetchRules ==
    /\ pc = At("fetch", "rules")
    /\ \E response \in Responses("rules") :
          LET f == fetch_nftables(response, "rule")
              r == IF f.exc = "" THEN ProcessRules(metrics, f.result)
                   ELSE [metrics |-> metrics, warnings |-> 0, exc |-> f.exc]
          IN  /\ Issue(PrimaryCmd("ruleset"), response)
              /\ version' = response.version
              /\ nft_rules' = f.result
              /\ metrics' = r.metrics
              /\ warnings' = warnings + r.warnings
              /\ Outcome(r.exc, After("rules"))
              /\ Completed(r.exc, "rules")
    /\ elapsed' = 0
    /\ slept' = -1
    /\ UNCHANGED <<geoip_db, nft_counters, data, idx, volatile, mode, written, prevWritten, prevEnd,
                   serverVars, enrichVars, retryVars, fetchVars>>

\* line 160
FetchChains ==
    /\ pc = At("fetch", "chains")
    /\ \E response \in Responses("chains") :
          LET f == fetch_nftables(response, "chain")
          IN  /\ Issue(PrimaryCmd("ruleset"), response)
              /\ version' = response.version
              /\ metrics' = IF f.exc = "" THEN [metrics EXCEPT !.chains = Len(f.result)]
                            ELSE metrics
              /\ Outcome(f.exc, After("chains"))
              /\ Completed(f.exc, "chains")
    /\ UNCHANGED <<geoip_db, nft_rules, nft_counters, data, idx, warnings, elapsed, slept, volatile, mode, written,
                   prevWritten, prevEnd, serverVars, enrichVars, retryVars, fetchVars>>

\* lines 163-165
FetchCounters ==
    /\ pc = At("fetch", "counters")
    /\ \E response \in Responses("counters") :
          LET f == fetch_nftables(response, "counter")
              r == ProcessCounters(f.result, [metrics |-> metrics, exc |-> f.exc])
          IN  /\ Issue(PrimaryCmd("counters"), response)
              /\ version' = response.version
              /\ nft_counters' = f.result
              /\ metrics' = r.metrics
              /\ Outcome(r.exc, After("counters"))
              /\ Completed(r.exc, "counters")
    /\ UNCHANGED <<geoip_db, nft_rules, data, idx, warnings, elapsed, slept, volatile, mode, written,
                   prevWritten, prevEnd, serverVars, enrichVars, retryVars, fetchVars>>

\* lines 166, 170, 174: <metric>.reset(); nft_rules and nft_counters are read
\* for the last time at lines 157 and 164, and are dropped here
ResetElements(family) ==
    /\ pc = At("reset", family)
    /\ metrics' = [metrics EXCEPT ![MetricOf(family)] = reset_labels(@)]
    /\ pc' = At("fetch", family)
    /\ nft_rules' = <<>>
    /\ nft_counters' = <<>>
    /\ UNCHANGED <<geoip_db, data, idx, queries, warnings, version, returncode, interrupted,
                   processed, retval, raised, exitStatus, elapsed, slept, volatile, mode,
                   snap, written, prevWritten, prevEnd, serverVars, enrichVars, retryVars, fetchVars>>

\* fetch_nftables, lines 197-212: the primary query of maps, meters or sets
RunPrimary(family) ==
    /\ pc = At("fetch", family)
    /\ family \in DetailScopes
    /\ \E response \in Responses(family) :
          LET verr == VersionError(response)
              kerr == DetailKeyError(response.items, 1, TypeOf(family))
              exc == IF verr # "" THEN verr ELSE kerr
          IN  /\ Issue(PrimaryCmd(family), response)
              /\ version' = response.version
              /\ data' = IF exc = "" THEN response.items ELSE <<>>
              /\ idx' = IF exc = "" /\ response.items # <<>> THEN 1 ELSE 0
              /\ Outcome(exc, IF response.items = <<>> THEN After(family)
                              ELSE At("detail", family))
              /\ Completed(IF response.items = <<>> THEN exc ELSE "pending", family)
    /\ UNCHANGED <<metrics, geoip_db, nft_rules, nft_counters, warnings, elapsed, slept, volatile, mode, written,
                   prevWritten, prevEnd, serverVars, enrichVars, retryVars, fetchVars>>

\* fetch_nftables, lines 213-223 and the head of the next iteration
RunDetail(family) ==
    /\ pc = At("detail", family)
    /\ \E detail \in DetailResponses(family, data[idx][TypeOf(family)]) :
          LET type_name == TypeOf(family)
              exc == DetailKeyError(data, idx + 1, type_name)
          IN  /\ Issue(DetailCmd(type_name, data[idx][type_name]), detail)
              /\ data' = [data EXCEPT ![idx] = MergeElem(@, type_name, detail)]
              /\ idx' = IF exc = "" THEN idx + 1 ELSE idx
              /\ Outcome(exc, IF idx = Len(data) THEN At("process", family)
                              ELSE At("detail", family))
    /\ UNCHANGED <<metrics, geoip_db, nft_rules, nft_counters, warnings, version, processed, elapsed, slept, volatile,
                   mode, written, prevWritten, prevEnd, serverVars, enrichVars, retryVars, fetchVars>>

\* fetch_nftables, lines 224-228, and the loops of lines 167-169, 171-173, 175-177
ProcessFetched(family) ==
    /\ pc = At("process", family)
    /\ LET m == MetricOf(family)
           r == ProcessElements(Tagged(data, TypeOf(family)), geoip_db,
                                [metric |-> metrics[m], written |-> written[m], exc |-> ""])
       IN  /\ metrics' = [metrics EXCEPT ![m] = r.metric]
           /\ written' = [written EXCEPT ![m] = r.written]
           /\ Outcome(r.exc, After(family))
           /\ Completed(r.exc, family)
    /\ data' = <<>>
    /\ idx' = 0
    /\ UNCHANGED <<geoip_db, nft_rules, nft_counters, queries, warnings, version, returncode, elapsed, slept,
                   volatile, mode, snap, prevWritten, prevEnd, serverVars, enrichVars, retryVars, fetchVars>>

\* the command the process is waiting for
CurrentCmd ==
    IF pc.step = "detail" THEN DetailCmd(TypeOf(pc.family), data[idx][TypeOf(pc.family)])
    ELSE PrimaryCmd(QueryOf(pc.family))

\* subprocess.run(check=True) raises CalledProcessError: lines 181-183 and 383-384
QueryFails ==
    /\ pc.step \in {"fetch", "detail"}
    /\ queries' = Append(queries, CurrentCmd)
    /\ returncode' = 1
    /\ retval' = OnCalledProcessError
    /\ exitStatus' = ExitStatus(OnCalledProcessError)
    /\ pc' = Stopped
    /\ UNCHANGED <<metrics, geoip_db, nft_rules, nft_counters, data, idx, warnings, version, interrupted, processed,
                   raised, elapsed, slept, volatile, mode, snap, written, prevWritten,
                   prevEnd, serverVars, enrichVars, retryVars, fetchVars>>

\* KeyboardInterrupt inside the try of collect_metrics: lines 184-186 and 383
Interrupt ==
    /\ pc.step # "stopped"
    /\ interrupted' = TRUE
    /\ retval' = OnKeyboardInterrupt
    /\ exitStatus' = ExitStatus(OnKeyboardInterrupt)
    /\ pc' = Stopped
    /\ UNCHANGED <<metrics, geoip_db, nft_rules, nft_counters, data, idx, queries, warnings, version, returncode,
                   processed, raised, elapsed, slept, volatile, mode, snap, written,
                   prevWritten, prevEnd, serverVars, enrichVars, retryVars, fetchVars>>

\* line 179: the second reading of the clock
CollectDone ==
    /\ pc = At("collected", "")
    /\ elapsed' \in 0..MaxElapsed
    /\ pc' = At("sleep", "")
    /\ UNCHANGED <<metrics, geoip_db, nft_rules, nft_counters, data, idx, queries, warnings, version, returncode,
                   interrupted, processed, retval, raised, exitStatus, slept, volatile,
                   mode, snap, written, prevWritten, prevEnd, serverVars, enrichVars, retryVars, fetchVars>>

\* a live host answers every query afresh; a host that repeats a listing answers
\* the queries of one cycle (record) once more in the next (replay)
NextModes ==
    CASE mode = "live" -> {"live"}
      [] mode = "free" -> {"free", "record"}
      [] mode = "record" -> {"replay"}
      [] mode = "replay" -> {"free"}

\* line 180 and back to line 142; the lists of the cycle behind are not read again
Sleep ==
    /\ pc = At("sleep", "")
    /\ slept' = SleepDuration(UpdateInterval, elapsed)
    /\ pc' = Enter(Order[1])
    /\ queries' = <<>>
    /\ warnings' = 0
    /\ processed' = <<>>
    /\ prevEnd' = metrics
    /\ prevWritten' = written
    /\ written' = NoneWritten
    /\ mode' \in NextModes
    /\ snap' = IF mode = "record" THEN snap ELSE <<>>
    /\ nft_rules' = <<>>
    /\ nft_counters' = <<>>
    /\ scraped' = NoScrape
    /\ UNCHANGED <<metrics, geoip_db, data, idx, version, returncode, interrupted, retval,
                   raised, exitStatus, elapsed, volatile, alive, enrichVars, retryVars, fetchVars>>

(***************************************************************************)
(* Specifications.                                                         *)
(***************************************************************************)
LoopStart ==
    /\ pc = Enter(Order[1])
    /\ metrics = build_prometheus_metrics
    /\ data = <<>>
    /\ idx = 0
    /\ nft_rules = <<>>
    /\ nft_counters = <<>>
    /\ queries = <<>>
    /\ warnings = 0
    /\ version = SupportedVersion
    /\ returncode = 0
    /\ interrupted = FALSE
    /\ processed = <<>>
    /\ retval = "none"
    /\ raised = ""
    /\ exitStatus = -1
    /\ elapsed = 0
    /\ slept = -1
    /\ snap = <<>>
    /\ written = NoneWritten
    /\ prevWritten = NoneWritten
    /\ prevEnd = build_prometheus_metrics
    /\ scraped = NoScrape
    /\ alive = TRUE

EnrichIdle ==
    /\ eItem = BareObject("s", "ipv4_addr")
    /\ eGeo = FALSE
    /\ eOut = NoOutput
    /\ ePc = "idle"

RetryIdle ==
    /\ retries = 0
    /\ exceptions = {}
    /\ outcomes = <<>>
    /\ calls = 0
    /\ wrapperPc = "idle"
    /\ wrapperResult = NoResult

FetchIdle ==
    /\ fetchIn = [family |-> "rules", response |-> [version |-> SupportedVersion, items |-> <<>>],
                  details |-> <<>>]
    /\ fetchOut = NoFetch
    /\ fetchPc = "idle"

Init ==
    /\ LoopStart
    /\ geoip_db \in BOOLEAN
    /\ volatile \in Families
    /\ mode = "live"
    /\ EnrichIdle
    /\ RetryIdle
    /\ FetchIdle

Next ==
    \/ FetchRules
    \/ FetchChains
    \/ FetchCounters
    \/ \E family \in DetailScopes : ResetElements(family)
    \/ \E family \in DetailScopes : RunPrimary(family)
    \/ \E family \in DetailScopes : RunDetail(family)
    \/ \E family \in DetailScopes : ProcessFetched(family)
    \/ QueryFails
    \/ Interrupt
    \/ CollectDone
    \/ Sleep

Spec == Init /\ [][Next]_vars

\* the polling loop on a host that may repeat the listings of a cycle
InitRepeat ==
    /\ LoopStart
    /\ geoip_db \in BOOLEAN
    /\ volatile \in Families
    /\ mode = "free"
    /\ EnrichIdle
    /\ RetryIdle
    /\ FetchIdle

SpecRepeat == InitRepeat /\ [][Next]_vars

\* the server thread started at line 73 serves a scrape from the metric objects
\* the loop writes in place: it may run between any two statements of the loop,
\* and after the loop has ended for as long as the interpreter has not
Scrape ==
    /\ alive
    /\ scraped' = [served |-> TRUE, metrics |-> metrics, failed |-> (returncode # 0)]
    /\ UNCHANGED <<loopVars, alive, enrichVars, retryVars, fetchVars>>

\* the interpreter ends after collect_metrics has (lines 183, 186, 384, or the
\* traceback of an uncaught exception): the daemon thread of the server dies with it
Terminate ==
    /\ pc = Stopped
    /\ alive
    /\ alive' = FALSE
    /\ UNCHANGED <<loopVars, scraped, enrichVars, retryVars, fetchVars>>

NextServed ==
    \/ Next
    \/ Scrape
    \/ Terminate

\* the polling loop with the exposition server beside it, on a host where the
\* declared counters or the sets change
InitServed ==
    /\ LoopStart
    /\ geoip_db \in BOOLEAN
    /\ volatile \in {"counters", "sets"}
    /\ mode = "live"
    /\ EnrichIdle
    /\ RetryIdle
    /\ FetchIdle

SpecServed == InitServed /\ [][NextServed]_vars

\* one pass of the for loop of the wrapper: lines 263-268
TryCall ==
    /\ wrapperPc = "loop"
    /\ calls < Attempts(retries)
    /\ calls' = calls + 1
    /\ LET outcome == outcomes[calls + 1]
       IN  IF outcome = "return"
           THEN /\ wrapperPc' = "returned"
                /\ wrapperResult' = [kind |-> "return", call |-> calls + 1]
           ELSE IF Swallowed(outcome, exceptions)
           THEN /\ wrapperPc' = "loop"
                /\ wrapperResult' = wrapperResult
           ELSE /\ wrapperPc' = "raised"
                /\ wrapperResult' = [kind |-> outcome, call |-> calls + 1]
    /\ UNCHANGED <<retries, exceptions, outcomes, loopVars, serverVars, enrichVars, fetchVars>>

\* the call after the loop: line 269
FinalCall ==
    /\ wrapperPc = "loop"
    /\ calls = Attempts(retries)
    /\ calls' = calls + 1
    /\ wrapperPc' = IF outcomes[calls + 1] = "return" THEN "returned" ELSE "raised"
    /\ wrapperResult' = [kind |-> outcomes[calls + 1], call |-> calls + 1]
    /\ UNCHANGED <<retries, exceptions, outcomes, loopVars, serverVars, enrichVars, fetchVars>>

\* a call of a function wrapped by retry(n, exceptions): every n up to the bound,
\* the exception types of lines 284 and 295, every behaviour of the calls
RetryInit ==
    /\ LoopStart
    /\ geoip_db = FALSE
    /\ volatile = "sets"
    /\ mode = "live"
    /\ EnrichIdle
    /\ FetchIdle
    /\ retries \in 0..MaxRetries
    /\ exceptions \in {{"URLError"}, {"URLError", "RuntimeError"}}
    /\ outcomes \in [1..retries + 1 -> CallOutcomes]
    /\ calls = 0
    /\ wrapperPc = "loop"
    /\ wrapperResult = NoResult

RetryNext ==
    \/ TryCall
    \/ FinalCall

SpecRetry == RetryInit /\ [][RetryNext]_vars

\* fetch_nftables applied to one scope
Fetch ==
    /\ fetchPc = "call"
    /\ fetchOut' = fetch_nftables_detailed(QueryOf(fetchIn.family), TypeOf(fetchIn.family),
                                           fetchIn.response, fetchIn.details)
    /\ fetchPc' = "done"
    /\ UNCHANGED <<fetchIn, loopVars, serverVars, enrichVars, retryVars>>

\* every scope, every listing of its entries, under the supported version and another
FetchInit ==
    /\ LoopStart
    /\ geoip_db = FALSE
    /\ volatile = "sets"
    /\ mode = "live"
    /\ EnrichIdle
    /\ RetryIdle
    /\ \E family \in Families :
          fetchIn \in [family : {family},
                       response : [version : {SupportedVersion, SupportedVersion + 1},
                                   items : ListingsOf(Items(family), MaxItems)],
                       details : [1..MaxItems -> BOOLEAN]]
    /\ fetchOut = NoFetch
    /\ fetchPc = "call"

FetchNext == Fetch

SpecFetch == FetchInit /\ [][FetchNext]_vars

\* the enricher applied to one object
Enrich ==
    /\ ePc = "call"
    /\ eOut' = annotate_elements_with_country(eItem, eGeo)
    /\ ePc' = "done"
    /\ UNCHANGED <<eItem, eGeo, loopVars, serverVars, retryVars, fetchVars>>

EnrichInit ==
    /\ LoopStart
    /\ geoip_db = FALSE
    /\ volatile = "sets"
    /\ mode = "live"
    /\ eItem \in EnrichItems
    /\ eGeo \in BOOLEAN
    /\ eOut = NoOutput
    /\ ePc = "call"
    /\ RetryIdle
    /\ FetchIdle

EnrichNext == Enrich

SpecEnrich == EnrichInit /\ [][EnrichNext]_vars


(***************************************************************************)
(* Properties of the reconciliation (Spec, SpecRepeat).                    *)
(***************************************************************************)
CycleComplete == pc.step \in {"collected", "sleep"}

\* C1: at the end of every completed cycle, a label combination of map_elements,
\* meter_elements or set_elements that was written in the cycle before and is not
\* written in this one has the value 0.
C1_AbsentReadsZero ==
    CycleComplete =>
        \A m \in ElementMetrics : \A l \in prevWritten[m] \ written[m] :
            metrics[m][l] = 0

\* a completed cycle in which a series that ended the cycle before above 0 is
\* not written again and reads 0
C1_Witness ==
    /\ CycleComplete
    /\ \E m \in ElementMetrics : \E l \in prevWritten[m] \ written[m] :
          prevEnd[m][l] > 0 /\ metrics[m][l] = 0

\* C2: a cycle that gets the responses of the cycle before once more ends with
\* all seven metrics as they were at the end of the cycle before.
C2_Idempotent ==
    (mode = "replay" /\ CycleComplete) => metrics = prevEnd

\* a repeated cycle that ends with a counter series and an element series above 0
C2_Witness ==
    /\ mode = "replay"
    /\ CycleComplete
    /\ queries # <<>>
    /\ Len(queries) = Len(snap)
    /\ metrics = prevEnd
    /\ \E l \in DOMAIN metrics.counter_bytes : metrics.counter_bytes[l] > 0
    /\ \E m \in ElementMetrics : \E l \in DOMAIN metrics[m] : metrics[m][l] > 1

(***************************************************************************)
(* Properties of the failure paths (Spec).                                 *)
(***************************************************************************)
\* C3: once an nft command has ended with a nonzero status, primary or per-object,
\* collect_metrics has returned False, the process has exited with status 1 and
\* no step (no query, no retry, no further cycle) follows.
C3_QueryFailureStops ==
    returncode # 0 =>
        /\ pc = Stopped
        /\ retval = "False"
        /\ exitStatus = 1
        /\ raised = ""
        /\ ~ENABLED Next

\* a per-object query that failed in the middle of a cycle
C3_Witness ==
    /\ returncode # 0
    /\ pc = Stopped
    /\ exitStatus = 1
    /\ Len(queries[Len(queries)]) > Len(PrimaryCmd("sets"))
    /\ Len(processed) >= 3

NoCounterAtSecond(rule) ==
    ~(Len(rule["expr"]) >= 2 /\ "counter" \in DOMAIN rule["expr"][2])

SkippedRules ==
    {i \in 1..Len(nft_rules) :
        "comment" \in DOMAIN nft_rules[i] /\ NoCounterAtSecond(nft_rules[i])}

UsableRules ==
    {i \in 1..Len(nft_rules) :
        "comment" \in DOMAIN nft_rules[i] /\ ~NoCounterAtSecond(nft_rules[i])}

\* C4: when the fetched rules hold commented rules with no counter expression at
\* the second position, whatever the length of their expression sequence, no
\* exception is raised, one warning is logged for each of them, and they write
\* no counter_bytes and no counter_packets observation (the two metrics are as
\* the cycle before left them until the declared counters are worked on).
C4_SkippedWithWarning ==
    SkippedRules # {} =>
        /\ raised = ""
        /\ warnings = Cardinality(SkippedRules)
        /\ (UsableRules = {} /\ "counters" \notin {processed[i] : i \in 1..Len(processed)}) =>
              /\ metrics.counter_bytes = prevEnd.counter_bytes
              /\ metrics.counter_packets = prevEnd.counter_packets

\* C5: a primary response whose json_schema_version is not 1 ends the process
\* with an uncaught RuntimeError (collect_metrics returns nothing, unlike the
\* command-execution path), in the step that received it: no metric changes,
\* no object is handed on, and the query that got it is the last one.
C5_VersionIsFatal ==
    /\ [](version # SupportedVersion =>
            /\ pc = Stopped
            /\ raised = "RuntimeError"
            /\ retval = "none"
            /\ returncode = 0
            /\ exitStatus = 1
            /\ data = <<>>
            /\ ~ENABLED Next)
    /\ [][version' # SupportedVersion =>
            /\ metrics' = metrics
            /\ processed' = processed
            /\ queries' = Append(queries, PrimaryCmd(QueryOf(pc.family)))]_vars

\* a version 2 response to the primary query of maps, meters or sets
C5_Witness ==
    /\ version # SupportedVersion
    /\ raised = "RuntimeError"
    /\ pc = Stopped
    /\ Len(processed) >= 3
    /\ queries[Len(queries)][4] \in DetailScopes

(***************************************************************************)
(* Properties of the enricher (SpecEnrich).                                *)
(***************************************************************************)
Enriching == ePc = "done" /\ eGeo /\ TypeField(eItem) \in AddressTypes

\* C6 as stated: with a lookup source and an address type, the counts of the
\* yielded pairs add up to the number of elements, whatever their shape.
C6_SumIsLength ==
    Enriching => SumCounts(eOut.pairs) = Len(ElementsOf(eItem))

\* C6 as amended: the counts add up to the number of elements that are bare
\* values or records; an element of another shape is not counted, and a record
\* without an elem.val entry ends the generator with KeyError before any pair.
C6_SumIsCountedElements ==
    Enriching =>
        IF eOut.exc = ""
        THEN SumCounts(eOut.pairs) = CountIf(ElementsOf(eItem), {"str", "dict"})
        ELSE /\ eOut.exc = "KeyError"
             /\ eOut.pairs = <<>>
             /\ \E i \in 1..Len(ElementsOf(eItem)) :
                   /\ ElementsOf(eItem)[i].kind = "dict"
                   /\ "elem" \notin DOMAIN ElementsOf(eItem)[i].body

\* two elements of one country and an element of another shape beside them
C6_Witness ==
    /\ Enriching
    /\ eOut.exc = ""
    /\ Len(ElementsOf(eItem)) > SumCounts(eOut.pairs)
    /\ \E i \in 1..Len(eOut.pairs) : eOut.pairs[i][2] >= 2

\* C7: without a lookup source, or for an object whose declared type is no
\* address type, the enricher yields exactly one pair: the object's attributes
\* with country '', and the length of its element collection (0 without one).
C7_PassThrough ==
    (ePc = "done" /\ ~(eGeo /\ TypeField(eItem) \in AddressTypes)) =>
        /\ eOut.exc = ""
        /\ Len(eOut.pairs) = 1
        /\ DOMAIN eOut.pairs[1][1] = DOMAIN eItem \cup {"country"}
        /\ eOut.pairs[1][1]["country"] = ""
        /\ \A k \in DOMAIN eItem : eOut.pairs[1][1][k] = eItem[k]
        /\ eOut.pairs[1][2] =
              IF "elem" \in DOMAIN eItem THEN Len(eItem["elem"]) ELSE 0

\* a lookup source and a collection of a type that is no address type
C7_Witness ==
    /\ ePc = "done"
    /\ eGeo
    /\ TypeField(eItem) = "inet_service"
    /\ Len(ElementsOf(eItem)) = MaxEnrichElems
    /\ Len(eOut.pairs) = 1
    /\ eOut.pairs[1][2] = MaxEnrichElems

(***************************************************************************)
(* Properties of the loop's schedule (Spec).                               *)
(***************************************************************************)
JustSlept == slept # -1

\* C8 as stated: the sleep between two cycles lasts the update interval less the
\* time spent collecting, and nothing when collecting took longer.
C8_SleepsRemainder ==
    JustSlept => slept = (IF elapsed >= UpdateInterval THEN 0
                          ELSE UpdateInterval - elapsed)

\* C8 as amended: the sleep between two cycles lasts the whole update interval,
\* whatever time was spent collecting.
C8_SleepsWholeInterval ==
    JustSlept => slept = UpdateInterval

\* a cycle that starts after a collection longer than the interval and a full sleep
C8_Witness ==
    /\ JustSlept
    /\ pc = Enter(Order[1])
    /\ elapsed > UpdateInterval
    /\ slept = UpdateInterval

IsPrimary(cmd) == Len(cmd) = Len(PrimaryCmd("sets"))
PrimaryQueries == SelectSeq(queries, IsPrimary)

\* C9: in every cycle the primary queries are those of rules, chains, counters,
\* maps, meters and sets in this order, the writes for a family are complete
\* before the next family's query, and a completed cycle has worked on each
\* family once.
C9_FamiliesInOrder ==
    /\ Len(processed) <= Len(Order)
    /\ processed = SubSeq(Order, 1, Len(processed))
    /\ Len(PrimaryQueries) <= Len(Order)
    /\ PrimaryQueries =
          [i \in 1..Len(PrimaryQueries) |-> PrimaryCmd(QueryOf(Order[i]))]
    /\ Len(PrimaryQueries) \in {Len(processed), Len(processed) + 1}
    /\ pc.step \in {"fetch", "detail", "process"} =>
          pc.family = Order[Len(processed) + 1]
    /\ CycleComplete => processed = Order /\ Len(PrimaryQueries) = Len(Order)

\* a completed cycle that ran per-object queries
C9_Witness ==
    /\ pc.step = "collected"
    /\ processed = Order
    /\ Len(queries) > Len(Order)

\* C10: a KeyboardInterrupt ends the loop as a clean exit: collect_metrics
\* returns True, the exit status is 0, nothing follows, and the step that
\* delivers it changes neither the metrics nor the queries issued.
C10_InterruptIsClean ==
    /\ [](interrupted =>
            /\ pc = Stopped
            /\ retval = "True"
            /\ exitStatus = 0
            /\ raised = ""
            /\ ~ENABLED Next)
    /\ [][interrupted' # interrupted =>
            /\ metrics' = metrics
            /\ queries' = queries
            /\ written' = written]_vars

\* an interrupt during a per-object query, after writes of the same cycle
C10_Witness ==
    /\ interrupted
    /\ exitStatus = 0
    /\ pc = Stopped
    /\ idx > 0
    /\ metrics # prevEnd
    /\ Len(processed) >= 3

(***************************************************************************)
(* Properties of the counter metrics (Spec).                               *)
(***************************************************************************)
\* the rules and the declared counters of the cycle have been written: no later
\* step of the cycle changes counter_bytes or counter_packets (C12)
CountersWritten == pc = After("counters")

CounterKey(family, table, name) == [family |-> family, table |-> table, name |-> name]
RuleKey(rule) == CounterKey(rule["family"], rule["table"], rule["comment"])
DeclaredKey(counter) == CounterKey(counter["family"], counter["table"], counter["name"])

CommentedIndices == {i \in 1..Len(nft_rules) : "comment" \in DOMAIN nft_rules[i]}

\* no two commented rules of this cycle share family, table and comment
CommentsUnique ==
    \A i, j \in CommentedIndices : i # j => RuleKey(nft_rules[i]) # RuleKey(nft_rules[j])

ReadingOf(rule) == rule["expr"][2]["counter"]

Publishes(key, reading) ==
    /\ key \in DOMAIN metrics.counter_bytes
    /\ key \in DOMAIN metrics.counter_packets
    /\ metrics.counter_bytes[key] = reading["bytes"]
    /\ metrics.counter_packets[key] = reading["packets"]

\* the declared counters of this cycle that are listed under a key
DeclaredAs(key) == {j \in 1..Len(nft_counters) : DeclaredKey(nft_counters[j]) = key}

\* what a counter-style write may be handed: family and table, with or without
\* a name, a comment and attributes that are no labels
CounterData ==
    {[k \in {"family", "table"} \cup ks |->
        CASE k = "family" -> "ip"
          [] k = "table" -> "filter"
          [] k = "name" -> "cnt"
          [] k = "comment" -> "ssh-in"
          [] OTHER -> "accept"] : ks \in SUBSET {"name", "comment", "handle"}}

\* the name label is the declared name when there is one and the comment
\* otherwise; without either the write fails with KeyError
NameRule ==
    \A d \in CounterData :
        LET lab == DictCounter_labels(d, CounterLabelNames)
        IN  IF "name" \in DOMAIN d
            THEN lab.exc = "" /\ lab.key = CounterKey(d["family"], d["table"], d["name"])
            ELSE IF "comment" \in DOMAIN d
            THEN lab.exc = "" /\ lab.key = CounterKey(d["family"], d["table"], d["comment"])
            ELSE lab.exc = "KeyError"

\* C11 as stated: when the comments of a table are unique, once the cycle has
\* written its counters counter_bytes and counter_packets under (family, table, comment) carry
\* the bytes and packets of each commented rule with a counter expression at the
\* second position; the name label follows the name rule.
C11_RuleCountersPublished ==
    /\ (CountersWritten /\ CommentsUnique) =>
            \A i \in UsableRules : Publishes(RuleKey(nft_rules[i]), ReadingOf(nft_rules[i]))
    /\ NameRule

\* C11 as amended: the same for every such rule whose comment is not also the
\* name of a declared counter of its family and table in this cycle; where it
\* is, the series carry the values of the declared counter listed last under
\* that name, since the declared counters are written after the rules.
C11_PublishedUnlessDeclared ==
    /\ (CountersWritten /\ CommentsUnique) =>
            \A i \in UsableRules :
                LET key == RuleKey(nft_rules[i])
                    same == DeclaredAs(key)
                IN  IF same = {}
                    THEN Publishes(key, ReadingOf(nft_rules[i]))
                    ELSE Publishes(key, nft_counters[CHOOSE j \in same : \A k \in same : k <= j])
    /\ NameRule

\* a cycle with two commented rules under different comments, each published
\* with its own counts
C11_Witness ==
    /\ CountersWritten
    /\ CommentsUnique
    /\ Cardinality(UsableRules) = 2
    /\ \A i \in UsableRules :
          /\ DeclaredAs(RuleKey(nft_rules[i])) = {}
          /\ Publishes(RuleKey(nft_rules[i]), ReadingOf(nft_rules[i]))
    /\ \E i \in UsableRules : ReadingOf(nft_rules[i]) # LastReading

\* the keys under which this cycle's rules and declared counters are published
RuleKeys == {RuleKey(nft_rules[i]) : i \in UsableRules}
DeclaredKeys == {DeclaredKey(nft_counters[j]) : j \in 1..Len(nft_counters)}
ObservedKeys == RuleKeys \cup DeclaredKeys

CounterMetrics == {"counter_bytes", "counter_packets"}
Field(m) == IF m = "counter_bytes" THEN "bytes" ELSE "packets"

\* the value the source reports for a key in this cycle: that of the declared
\* counter listed last under it, or else of the last rule commented with it
Reported(key, m) ==
    IF DeclaredAs(key) # {}
    THEN nft_counters[CHOOSE j \in DeclaredAs(key) : \A k \in DeclaredAs(key) : k <= j][Field(m)]
    ELSE LET same == {i \in UsableRules : RuleKey(nft_rules[i]) = key}
         IN  ReadingOf(nft_rules[CHOOSE i \in same : \A k \in same : k <= i])[Field(m)]

\* C12: no step removes a counter_bytes or counter_packets series, and only the
\* work on the rules and on the declared counters changes one; after that work a
\* series the cycle has not observed has the value the cycle before left
\* (so it keeps its last written value through all later cycles), and a series
\* observed again has the value reported in this cycle, not a sum.
C12_CountersNeverReset ==
    /\ [](CountersWritten =>
            \A m \in CounterMetrics :
                /\ \A key \in DOMAIN prevEnd[m] \ ObservedKeys :
                      key \in DOMAIN metrics[m] /\ metrics[m][key] = prevEnd[m][key]
                /\ \A key \in ObservedKeys :
                      key \in DOMAIN metrics[m] /\ metrics[m][key] = Reported(key, m))
    /\ [][\A m \in CounterMetrics : \A key \in DOMAIN metrics[m] :
            /\ key \in DOMAIN metrics'[m]
            /\ metrics'[m][key] # metrics[m][key] =>
                  pc \in {At("fetch", "rules"), At("fetch", "counters")}]_vars

\* a cycle in which one series of the cycle before is not observed and keeps its
\* value, and another is observed with a new value
C12_Witness ==
    /\ CountersWritten
    /\ \E key \in DOMAIN prevEnd.counter_packets \ ObservedKeys :
          /\ prevEnd.counter_packets[key] > 1
          /\ metrics.counter_packets[key] = prevEnd.counter_packets[key]
    /\ \E key \in DOMAIN prevEnd.counter_packets \cap ObservedKeys :
          /\ metrics.counter_packets[key] # prevEnd.counter_packets[key]
          /\ metrics.counter_packets[key] = Reported(key, "counter_packets")

(***************************************************************************)
(* Properties of what a scrape is served (SpecServed).                     *)
(***************************************************************************)
\* the work on the last family has begun: its reset precedes its first query
LastFamilyBegun == Len(processed) >= Len(Order) - 1

\* a cycle has been completed before the current one
HadCycle == prevEnd # build_prometheus_metrics

\* C13: a scrape served once an nft command has failed in a cycle after the
\* first shows no mix of the failed cycle and the cycle before: either every
\* metric is as the cycle before left it, or the failed cycle had worked on
\* every family.
C13_NoPartialScrape ==
    (HadCycle /\ scraped.served /\ scraped.failed) =>
        \/ scraped.metrics = prevEnd
        \/ LastFamilyBegun

(***************************************************************************)
(* Properties of the fetcher (SpecFetch).                                  *)
(***************************************************************************)
Fetched == fetchPc = "done" /\ fetchIn.response.version = SupportedVersion
RequestedType == TypeOf(fetchIn.family)

\* the positions of the response entries that carry the requested type tag
TaggedPositions ==
    {i \in 1..Len(fetchIn.response.items) : RequestedType \in DOMAIN fetchIn.response.items[i]}

\* the k-th of them, in the order of the response
TaggedPosition(k) ==
    CHOOSE i \in TaggedPositions : Cardinality({j \in TaggedPositions : j <= i}) = k

\* C14: for every scope, a fetch that got a version 1 response does not fail and
\* returns the entries of the response that carry the requested type tag, each
\* with the attributes the response gave it, in the order of the response.
C14_FetchFilters ==
    Fetched =>
        /\ fetchOut.exc = ""
        /\ Len(fetchOut.result) = Cardinality(TaggedPositions)
        /\ \A k \in 1..Len(fetchOut.result) :
              LET entry == fetchIn.response.items[TaggedPosition(k)][RequestedType]
              IN  \A a \in DOMAIN entry :
                     a \in DOMAIN fetchOut.result[k] /\ fetchOut.result[k][a] = entry[a]

Returned == fetchPc = "done" /\ fetchOut.exc = ""
ListCmd == <<"nft", "--json", "list">>

\* C15: every fetch runs the primary query of its scope first; for ruleset and
\* counters that is its only query; a fetch of sets, maps or meters that returns
\* has then run one per-object query for each returned object, in response
\* order, naming the object's type, family, table and name; and each returned
\* object has the element collection of its per-object response when that
\* response has one, and none otherwise.
C15_DetailQueries ==
    fetchPc = "done" =>
        /\ Len(fetchOut.cmds) >= 1
        /\ fetchOut.cmds[1] = ListCmd \o <<QueryOf(fetchIn.family)>>
        /\ fetchIn.family \notin DetailScopes => Len(fetchOut.cmds) = 1
        /\ (Returned /\ fetchIn.family \in DetailScopes) =>
              /\ Len(fetchOut.cmds) = 1 + Len(fetchOut.result)
              /\ \A k \in 1..Len(fetchOut.result) :
                    LET obj == fetchOut.result[k]
                    IN  /\ fetchOut.cmds[k + 1] =
                              ListCmd \o <<RequestedType, obj["family"], obj["table"], obj["name"]>>
                        /\ IF fetchIn.details[TaggedPosition(k)]
                           THEN "elem" \in DOMAIN obj /\ obj["elem"] = <<StrElem("1.1.1.1")>>
                           ELSE "elem" \notin DOMAIN obj

\* a fetch of sets that returns two objects, the first with elements and the
\* second without
C15_Witness ==
    /\ Returned
    /\ fetchIn.family = "sets"
    /\ Len(fetchOut.result) = 2
    /\ Len(fetchOut.cmds) = 3
    /\ "elem" \in DOMAIN fetchOut.result[1]
    /\ "elem" \notin DOMAIN fetchOut.result[2]
    /\ fetchOut.result[1]["name"] # fetchOut.result[2]["name"]

(***************************************************************************)
(* Properties of the enricher's grouping (SpecEnrich).                     *)
(***************************************************************************)
\* the country each address of the lookup source resolves to
CountryOf(address) ==
    CASE address = "1.1.1.1" -> "AU"
      [] address = "8.8.8.8" -> "US"
      [] OTHER -> ""

Codes == {CountryOf(a) : a \in Addresses}

\* the address of an element: the element itself when it is a bare value, the
\* value side when it is a key/value element
AddressOf(element) ==
    IF element.kind = "str" THEN element.val ELSE element.body["elem"]["val"]

\* the elements of the object that resolve to a country code ('' included)
ResolvingTo(code) ==
    {i \in 1..Len(ElementsOf(eItem)) :
        /\ ElementsOf(eItem)[i].kind \in {"str", "dict"}
        /\ CountryOf(AddressOf(ElementsOf(eItem)[i])) = code}

PairsOf(code) == {k \in 1..Len(eOut.pairs) : eOut.pairs[k][1]["country"] = code}

\* C16: with a lookup source and an address type, once all elements are
\* consumed the enricher has yielded one pair for each country code some element
\* resolved to and none for any other, '' being the code of the elements that
\* did not resolve; the pair's count is the number of those elements and its
\* labels are the object's attributes with that country.
C16_OnePairPerCountry ==
    (Enriching /\ eOut.exc = "") =>
        /\ \A k \in 1..Len(eOut.pairs) : eOut.pairs[k][1]["country"] \in Codes
        /\ \A code \in Codes :
              IF ResolvingTo(code) = {}
              THEN PairsOf(code) = {}
              ELSE /\ Cardinality(PairsOf(code)) = 1
                   /\ \A k \in PairsOf(code) :
                         /\ eOut.pairs[k][2] = Cardinality(ResolvingTo(code))
                         /\ eOut.pairs[k][1] = WithCountry(eItem, code)

\* two elements of one country, one of them a key/value element, and one
\* element that does not resolve
C16_Witness ==
    /\ Enriching
    /\ eOut.exc = ""
    /\ Len(eOut.pairs) = 2
    /\ Cardinality(ResolvingTo("AU")) = 2
    /\ Cardinality(ResolvingTo("")) = 1
    /\ \E i \in ResolvingTo("AU") : ElementsOf(eItem)[i].kind = "dict"
    /\ \E k \in PairsOf("") : eOut.pairs[k][2] = 1

(***************************************************************************)
(* Properties of reset (Spec).                                             *)
(***************************************************************************)
LabelledMetrics == ElementMetrics \cup CounterMetrics
MetricNames == LabelledMetrics \cup {"chains", "rules"}

\* C17: a reset leaves the metric with the label combinations it tracked, all
\* at 0, and leaves the other six metrics as they are; no step of any cycle
\* removes a label combination from a metric.
C17_ResetKeepsSeries ==
    [][/\ \A m \in LabelledMetrics : DOMAIN metrics[m] \subseteq DOMAIN metrics'[m]
       /\ pc.step = "reset" /\ pc'.step = "fetch" =>
             /\ DOMAIN metrics'[MetricOf(pc.family)] = DOMAIN metrics[MetricOf(pc.family)]
             /\ \A l \in DOMAIN metrics[MetricOf(pc.family)] : metrics'[MetricOf(pc.family)][l] = 0
             /\ \A m \in MetricNames \ {MetricOf(pc.family)} : metrics'[m] = metrics[m]]_vars

\* a reset has just set to 0 a metric that tracks two label combinations, one of
\* them above 0 at the end of the cycle before, while another element metric
\* still has a series above 0
C17_Witness ==
    /\ pc.step = "fetch"
    /\ pc.family \in DetailScopes
    /\ Cardinality(DOMAIN metrics[MetricOf(pc.family)]) >= 2
    /\ \A l \in DOMAIN metrics[MetricOf(pc.family)] : metrics[MetricOf(pc.family)][l] = 0
    /\ \E l \in DOMAIN prevEnd[MetricOf(pc.family)] : prevEnd[MetricOf(pc.family)][l] > 0
    /\ metrics.counter_packets = prevEnd.counter_packets
    /\ \E l \in DOMAIN metrics.counter_packets : metrics.counter_packets[l] > 0

(***************************************************************************)
(* Properties of retry (SpecRetry).                                        *)
(***************************************************************************)
WrapperEnded == wrapperPc \in {"returned", "raised"}

\* C18: the wrapper calls the function at most n + 1 times; the calls before
\* the last one made all raised an exception of the configured types; when the
\* wrapper has returned, the last call made is the first that succeeded; when
\* it has raised, the exception is that of the last call made, which is the
\* call n + 1 or raised an exception of another type; and once the wrapper has
\* ended no call follows.
C18_RetryBound ==
    /\ calls <= retries + 1
    /\ wrapperPc # "idle" =>
          /\ \A i \in 1..calls - 1 : outcomes[i] \in exceptions
          /\ wrapperPc = "loop" =>
                calls <= retries /\ \A i \in 1..calls : outcomes[i] \in exceptions
          /\ wrapperPc = "returned" =>
                /\ outcomes[calls] = "return"
                /\ wrapperResult = [kind |-> "return", call |-> calls]
          /\ wrapperPc = "raised" =>
                /\ outcomes[calls] # "return"
                /\ wrapperResult = [kind |-> outcomes[calls], call |-> calls]
                /\ calls = retries + 1 \/ outcomes[calls] \notin exceptions
          /\ WrapperEnded => ~ENABLED RetryNext

\* under the default n, as many calls as allowed have each raised a configured
\* exception: the last one's has left the wrapper
C18_Witness ==
    /\ wrapperPc = "raised"
    /\ retries = DefaultRetries
    /\ calls = DefaultRetries + 1
    /\ wrapperResult.kind \in exceptions
    /\ wrapperResult.call = calls

\* C19: at the end of a cycle, for every label combination of an element
\* metric that the cycle before and this cycle both wrote with a count above 0,
\* the last scrape served during this cycle read the count of the cycle before
\* or the count of this cycle.
C19_NoTransientZero ==
    (CycleComplete /\ scraped.served) =>
        \A m \in ElementMetrics : \A l \in prevWritten[m] \cap written[m] :
            (prevEnd[m][l] > 0 /\ metrics[m][l] > 0) =>
                /\ l \in DOMAIN scraped.metrics[m]
                /\ scraped.metrics[m][l] \in {prevEnd[m][l], metrics[m][l]}

(***************************************************************************)
(* Properties of the element counts (Spec).                                *)
(***************************************************************************)
ObjectLabelNames == ElementLabelNames \ {"country"}

\* the series of a metric that belong to an object: every country
SeriesOf(metric, obj) ==
    {l \in DOMAIN metric :
        \A a \in ObjectLabelNames : a \in DOMAIN obj /\ l[a] = obj[a]}

RECURSIVE SumSeries(_, _)
SumSeries(metric, keys) ==
    IF keys = {} THEN 0
    ELSE LET l == CHOOSE k \in keys : TRUE
         IN  metric[l] + SumSeries(metric, keys \ {l})

ObjectCounted(metric, obj) ==
    /\ SeriesOf(metric, obj) # {}
    /\ SumSeries(metric, SeriesOf(metric, obj)) = Len(ElementsOf(obj))

\* C20: when the work on the maps, the meters or the sets of a cycle is
\* complete (their metric is not written again before the cycle ends), every
\* fetched object has at least one series in the metric, and the values of its
\* series add up to the number of its elements, 0 without an element collection.
C20_EveryObjectCounted ==
    [][\A family \in DetailScopes :
          (pc = At("process", family) /\ processed' # processed) =>
              \A i \in 1..Len(data) :
                  ObjectCounted(metrics'[MetricOf(family)], data[i][TypeOf(family)])]_vars

====
